---- MODULE Spec2Model ----
(***************************************************************************)
(* Model of streamlit_app.py: the option-chain viewer's data pipeline.     *)
(*                                                                         *)
(* The script is one top-to-bottom run: the load loop, concat/dropna/      *)
(* to_datetime/sort, the per-side grouped delta pass, the cross-side       *)
(* indicators, the two plot panels, the correlation panel (Panel C) and    *)
(* the strength table (Panel D).                                           *)
(* Each of those is one action; pc is the script's position.               *)
(*                                                                         *)
(* Representation.  A cell of the frame is a tuple: <<>> is pandas'        *)
(* "no value" (None / NaN / NaT), <<n>> is the number n.  A file name and  *)
(* a formatted timestamp are sequences of one-character strings.  A row is *)
(* a function from column name to cell; df.columns is kept beside the rows *)
(* because a column exists as soon as one concatenated frame has it.       *)
(* Library calls (pandas, re) are modelled by what they do on these        *)
(* values; the pandas behaviour assumed is that of the 1.3 - 2.x line,     *)
(* the only one on which the script's groupby(...).apply keeps the         *)
(* grouping column.                                                        *)
(***************************************************************************)
EXTENDS Integers, Sequences, FiniteSets, TLC

VARIABLES
    files,      \* the uploaded batch (st.file_uploader), in upload order
    pc,         \* position in the script
    i,          \* index of the file the load loop is at
    full,       \* script global `full`  (line 32)
    short,      \* script global `short` (line 32)
    frames,     \* script global `frames` (line 29)
    df,         \* script global `df`: [columns, rows]
    err,        \* "none", or the exception that ended the run
    saved,      \* st.session_state's selection read by the panel call that ran last
    rendered,   \* charts drawn by the panel call that ran last
    out         \* Panel D's table: rows with Strike, strengths and Bias

vars == <<files, pc, i, full, short, frames, df, err, saved, rendered, out>>

(***************************************************************************)
(* Bounds of the model.                                                    *)
(***************************************************************************)
MaxFiles == 2

MaxSeries == 3

(***************************************************************************)
(* Cells.                                                                  *)
(***************************************************************************)
NoValue == <<>>

Num(n) == <<n>>

IsNull(c) == c = NoValue

Val(c) == c[1]

Abs(n) == IF n < 0 THEN -n ELSE n

Sign(n) == IF n < 0 THEN -1 ELSE IF n > 0 THEN 1 ELSE 0

(***************************************************************************)
(* Column names.                                                           *)
(***************************************************************************)
Sides == <<"CE_", "PE_">>

BaseFields == {"totalTradedVolume", "openInterest", "lastPrice",
               "impliedVolatility", "strikePrice"}

DeltaFields == {"volChange", "oiChange", "priceChange", "ivChange", "pctReturn"}

SideCols(pre, fields) == {pre \o fld : fld \in fields}

BaseCols == SideCols("CE_", BaseFields) \cup SideCols("PE_", BaseFields)

AllCols == BaseCols \cup SideCols("CE_", DeltaFields) \cup SideCols("PE_", DeltaFields)
           \cup {"timestamp", "time_label", "OI_imbalance", "PCR"}

(***************************************************************************)
(* Characters and digit runs.                                              *)
(***************************************************************************)
DigitSeq == <<"0", "1", "2", "3", "4", "5", "6", "7", "8", "9">>

Digits == {DigitSeq[k] : k \in 1..10}

DigitVal(c) == (CHOOSE k \in 1..10 : DigitSeq[k] = c) - 1

DigitChar(n) == DigitSeq[n + 1]

RECURSIVE RunVal(_)
RunVal(run) ==
    IF run = <<>> THEN 0
    ELSE 10 * RunVal(SubSeq(run, 1, Len(run) - 1)) + DigitVal(run[Len(run)])

SetMin(S) == CHOOSE m \in S : \A n \in S : m <= n

(***************************************************************************)
(* parse_time (lines 22-27).  re.search finds the leftmost position where  *)
(* "_", eight digits, "_", six digits stand; nothing is required of the    *)
(* character after the sixth digit.                                        *)
(***************************************************************************)
MatchAt(name, p) ==
    /\ p + 15 <= Len(name)
    /\ name[p] = "_"
    /\ \A k \in 1..8 : name[p + k] \in Digits
    /\ name[p + 9] = "_"
    /\ \A k \in 10..15 : name[p + k] \in Digits

parse_time(name) ==
    LET hits == {p \in 1..Len(name) : MatchAt(name, p)} IN
    IF hits = {} THEN [full |-> NoValue, short |-> NoValue]
    ELSE LET p  == SetMin(hits)
             d  == SubSeq(name, p + 1, p + 2)
             mo == SubSeq(name, p + 3, p + 4)
             y  == SubSeq(name, p + 5, p + 8)
             h  == SubSeq(name, p + 10, p + 11)
             mi == SubSeq(name, p + 12, p + 13)
             s  == SubSeq(name, p + 14, p + 15)
         IN [full  |-> d \o <<"-">> \o mo \o <<"-">> \o y \o <<" ">>
                         \o h \o <<":">> \o mi \o <<":">> \o s,
             short |-> h \o mi]

(***************************************************************************)
(* pd.to_datetime(..., format="%d-%m-%Y %H:%M:%S", errors="coerce")        *)
(* (line 39) on a string parse_time formatted: the fields are read back    *)
(* from their places; a date or time that does not exist, or one outside   *)
(* the datetime64[ns] range, is coerced to NaT.  A timestamp is the tuple  *)
(* <<year, month, day, hour, minute, second>>, ordered lexicographically.  *)
(* (Seconds 60 and 61 pass pandas' %S pattern; no modelled name has them.) *)
(***************************************************************************)
NaT == NoValue

IsLeap(y) == (y % 4 = 0 /\ y % 100 # 0) \/ y % 400 = 0

DaysIn(mo, y) ==
    IF mo = 2 THEN (IF IsLeap(y) THEN 29 ELSE 28)
    ELSE IF mo \in {4, 6, 9, 11} THEN 30 ELSE 31

RECURSIVE TsLess(_, _)
TsLess(a, b) ==
    IF a = <<>> \/ b = <<>> THEN FALSE
    ELSE IF Head(a) # Head(b) THEN Head(a) < Head(b)
    ELSE TsLess(Tail(a), Tail(b))

TsMin == <<1677, 9, 21, 0, 12, 44>>

TsMax == <<2262, 4, 11, 23, 47, 16>>

to_datetime(s) ==
    LET d  == RunVal(SubSeq(s, 1, 2))
        mo == RunVal(SubSeq(s, 4, 5))
        y  == RunVal(SubSeq(s, 7, 10))
        h  == RunVal(SubSeq(s, 12, 13))
        mi == RunVal(SubSeq(s, 15, 16))
        se == RunVal(SubSeq(s, 18, 19))
        ts == <<y, mo, d, h, mi, se>>
    IN IF /\ y >= 1
          /\ mo \in 1..12
          /\ d >= 1 /\ d <= DaysIn(mo, y)
          /\ h <= 23 /\ mi <= 59 /\ se <= 59
          /\ ~TsLess(ts, TsMin) /\ ~TsLess(TsMax, ts)
       THEN ts ELSE NaT

(***************************************************************************)
(* DataFrame.sort_values("timestamp") (lines 40, 58, 86): ascending, NaT   *)
(* last, rows with equal keys left in their order (numpy sorts arrays of   *)
(* fewer than 17 elements by insertion).                                   *)
(***************************************************************************)
RowBefore(a, b) ==
    /\ ~IsNull(a["timestamp"])
    /\ (IsNull(b["timestamp"]) \/ TsLess(a["timestamp"], b["timestamp"]))

RECURSIVE InsertRow(_, _)
InsertRow(sorted, r) ==
    IF sorted = <<>> THEN <<r>>
    ELSE IF RowBefore(r, Head(sorted)) THEN <<r>> \o sorted
    ELSE <<Head(sorted)>> \o InsertRow(Tail(sorted), r)

RECURSIVE sort_values(_)
sort_values(rows) ==
    IF rows = <<>> THEN <<>>
    ELSE InsertRow(sort_values(SubSeq(rows, 1, Len(rows) - 1)), rows[Len(rows)])

(***************************************************************************)
(* The uploaded batch.  A file is its name, whether pd.read_csv can read   *)
(* it ("ok"; "empty": no bytes, EmptyDataError; "malformed": ParserError), *)
(* its header and its rows.  Every snapshot file of the model holds at     *)
(* most one chain row.                                                     *)
(***************************************************************************)
Csv == <<".", "c", "s", "v">>

DateRunOk == <<"0", "1", "0", "1", "2", "0", "2", "4">>

DateRunNoSuchDay == <<"9", "9", "9", "9", "2", "0", "2", "4">>

\* The k-th file's well-formed name: later uploads carry earlier times.
ValidName(k) ==
    <<"o", "c", "_">> \o DateRunOk \o <<"_", "0", DigitChar(9 - k)>>
    \o <<"1", "5", "0", "0">> \o Csv

NoMatchName == <<"o", "c">> \o Csv

BadDateName ==
    <<"o", "c", "_">> \o DateRunNoSuchDay \o <<"_", "0", "9", "1", "5", "0", "0">> \o Csv

SchemaBoth == BaseCols

SchemaCE == SideCols("CE_", BaseFields)

SchemaNoCEVol == BaseCols \ {"CE_totalTradedVolume"}

SchemaPEPlusCEPrice == SideCols("PE_", BaseFields) \cup {"CE_lastPrice"}

Schemas == {SchemaBoth, SchemaCE, SchemaNoCEVol, SchemaPEPlusCEPrice}

Strikes == {1, 2}

\* A strike no file holds: a saved selection may date from an earlier batch.
AbsentStrike == CHOOSE k \in 1..(Cardinality(Strikes) + 1) : k \notin Strikes

Volumes == {10, 30}

Prices == {0, 5}

\* 2^23 and 2^24: open interest on both sides of the size at which float64
\* no longer holds the 1e-9 of line 71.
OIValues == {0, 8388608, 16777216}

\* One option-chain row: the strike with its call and its put quote.
ChainRow(k, vol, price, ceoi, peoi) ==
    [c \in BaseCols |->
        CASE c = "CE_strikePrice"       -> Num(k)
          [] c = "PE_strikePrice"       -> Num(k)
          [] c = "CE_totalTradedVolume" -> Num(vol)
          [] c = "PE_totalTradedVolume" -> Num(40 - vol)
          [] c = "CE_lastPrice"         -> Num(price)
          [] c = "PE_lastPrice"         -> Num(price + 5)
          [] c = "CE_openInterest"      -> Num(ceoi)
          [] c = "PE_openInterest"      -> Num(peoi)
          [] c = "CE_impliedVolatility" -> Num(20 + price)
          [] c = "PE_impliedVolatility" -> Num(20)]

\* What pd.read_csv returns for a file with that header and that chain row.
FrameRow(schema, chain) ==
    [c \in AllCols |-> IF c \in schema THEN chain[c] ELSE NoValue]

File(name, kind, schema, rows) ==
    [name |-> name, kind |-> kind, columns |-> schema, rows |-> rows]

DefaultRow == ChainRow(1, 10, 5, 0, 0)

\* Files that differ in name, readability, header and emptiness.
LoaderFiles(k) ==
    {File(n, "ok", s, IF headerOnly THEN <<>> ELSE <<FrameRow(s, DefaultRow)>>) :
        n \in {ValidName(k), NoMatchName, BadDateName},
        s \in Schemas,
        headerOnly \in BOOLEAN}
    \cup {File(ValidName(k), kind, {}, <<>>) : kind \in {"empty", "malformed"}}

\* Readable, well-named one-row files that differ in the quotes.
ValueFiles(k) ==
    {File(ValidName(k), "ok", s, <<FrameRow(s, ChainRow(st, v, p, oi, 8388608 - oi))>>) :
        s \in {SchemaBoth, SchemaCE}, st \in Strikes, v \in Volumes,
        p \in Prices, oi \in {0, 8388608}}

\* Readable, well-named one-row files that differ in the open interest.
OIFiles(k) ==
    {File(ValidName(k), "ok", SchemaBoth,
          <<FrameRow(SchemaBoth, ChainRow(1, 10, 5, ceoi, peoi))>>) :
        ceoi \in OIValues, peoi \in OIValues}

\* Readable, well-named one-row files of one strike that differ in the call
\* volume and in whether the header has the call volume column at all.
SeriesFiles(k) ==
    {File(ValidName(k), "ok", s, <<FrameRow(s, ChainRow(1, v, 5, 0, 0))>>) :
        s \in {SchemaBoth, SchemaNoCEVol}, v \in Volumes}

\* The k-th file of a batch of one family.
FamilyFiles(family, k) ==
    CASE family = "loader" -> LoaderFiles(k)
      [] family = "value"  -> ValueFiles(k)
      [] family = "oi"     -> OIFiles(k)
      [] family = "series" -> SeriesFiles(k)

RECURSIVE BatchesOf(_, _)
BatchesOf(family, n) ==
    IF n = 0 THEN {<<>>}
    ELSE {Append(b, f) : b \in BatchesOf(family, n - 1), f \in FamilyFiles(family, n)}

\* The uploads of one run: up to MaxFiles files of the loader, the value or
\* the open-interest family, or up to MaxSeries files of the series family.
Batches(maxFiles, maxSeries) ==
    UNION {BatchesOf("loader", n) \cup BatchesOf("value", n)
           \cup BatchesOf("oi", n) : n \in 1..maxFiles}
    \cup UNION {BatchesOf("series", n) : n \in 1..maxSeries}

EmptyFrame == [columns |-> {}, rows |-> <<>>]

Init ==
    /\ files \in Batches(MaxFiles, MaxSeries)
    /\ pc = "load"
    /\ i = 1
    /\ full = NoValue
    /\ short = NoValue
    /\ frames = <<>>
    /\ df = EmptyFrame
    /\ err = "none"
    /\ saved = NoValue
    /\ rendered = <<>>
    /\ out = <<>>

(***************************************************************************)
(* The load loop's body (lines 30-35) for file i.  pd.read_csv raises on a *)
(* file it cannot read, which ends the run; nothing catches it.            *)
(***************************************************************************)
ReadFile ==
    /\ pc = "load"
    /\ i <= Len(files)
    /\ LET f == files[i]
           t == parse_time(f.name)
           stamped(r) == [r EXCEPT !["timestamp"] = t.full, !["time_label"] = t.short]
       IN IF f.kind # "ok"
          THEN /\ err' = (IF f.kind = "empty" THEN "EmptyDataError" ELSE "ParserError")
               /\ pc' = "aborted"
               /\ UNCHANGED <<i, full, short, frames>>
          ELSE /\ full' = t.full
               /\ short' = t.short
               /\ frames' = Append(frames,
                     [columns |-> f.columns \cup {"timestamp", "time_label"},
                      rows |-> [k \in 1..Len(f.rows) |-> stamped(f.rows[k])]])
               /\ i' = i + 1
               /\ UNCHANGED <<pc, err>>
    /\ UNCHANGED <<files, df, saved, rendered, out>>

RECURSIVE ConcatRows(_)
ConcatRows(fs) ==
    IF fs = <<>> THEN <<>> ELSE Head(fs).rows \o ConcatRows(Tail(fs))

HasTimestamp(r) == ~IsNull(r["timestamp"])

ConvertTimestamp(r) == [r EXCEPT !["timestamp"] = to_datetime(r["timestamp"])]

(***************************************************************************)
(* Lines 37-40: concat, dropna on the formatted string, to_datetime with   *)
(* errors="coerce", sort.                                                  *)
(***************************************************************************)
Concat ==
    /\ pc = "load"
    /\ i > Len(files)
    /\ LET kept == SelectSeq(ConcatRows(frames), HasTimestamp)
           conv == [k \in 1..Len(kept) |-> ConvertTimestamp(kept[k])]
       IN df' = [columns |-> UNION {frames[k].columns : k \in 1..Len(frames)},
                 rows |-> sort_values(conv)]
    /\ pc' = "deltas"
    /\ UNCHANGED <<files, i, full, short, frames, err, saved, rendered, out>>

(***************************************************************************)
(* Series.diff().fillna(0) (lines 59-62) over a group's cells in order:    *)
(* the first difference is missing, and so is one with a missing operand;  *)
(* fillna turns each missing difference into 0.                            *)
(***************************************************************************)
diff_fillna(cells) ==
    [k \in 1..Len(cells) |->
        IF k = 1 \/ IsNull(cells[k]) \/ IsNull(cells[k - 1]) THEN Num(0)
        ELSE Num(Val(cells[k]) - Val(cells[k - 1]))]

(***************************************************************************)
(* Series.pct_change().fillna(0) * 100 (line 63).  pct_change first fills  *)
(* a missing price with the last one before it (fill_method="pad"), then   *)
(* divides each price by its predecessor and subtracts 1.  The result is   *)
(* the ratio <<n, d>>, d >= 0 (both 100-fold after the multiplication):    *)
(* d = 0 with n # 0 is IEEE's infinity of n's sign, which fillna leaves;   *)
(* 0/0 and a missing operand are NaN, which fillna turns into 0.           *)
(***************************************************************************)
RECURSIVE Pad(_)
Pad(cells) ==
    IF cells = <<>> THEN <<>>
    ELSE LET before == Pad(SubSeq(cells, 1, Len(cells) - 1))
             last   == cells[Len(cells)]
         IN Append(before,
                   IF IsNull(last) /\ before # <<>> THEN before[Len(before)] ELSE last)

Ratio(n, d) == IF d < 0 THEN <<-n, -d>> ELSE <<n, d>>

ZeroRatio == <<0, 1>>

IsInfinite(q) == q[2] = 0 /\ q[1] # 0

IsZero(q) == q[1] = 0 /\ q[2] # 0

pct_change_fillna_100(cells) ==
    LET filled == Pad(cells) IN
    [k \in 1..Len(cells) |->
        IF k = 1 \/ IsNull(filled[k]) \/ IsNull(filled[k - 1]) THEN ZeroRatio
        ELSE LET cur == Val(filled[k])
                 prev == Val(filled[k - 1])
             IN IF prev = 0 /\ cur = 0 THEN ZeroRatio
                ELSE IF cur = prev THEN ZeroRatio
                ELSE Ratio(100 * (cur - prev), prev)]

Column(rows, c) == [k \in 1..Len(rows) |-> rows[k][c]]

(***************************************************************************)
(* add_deltas (lines 57-64) on one strike's rows.                          *)
(***************************************************************************)
add_deltas(group, pre) ==
    LET g      == sort_values(group)
        dvol   == diff_fillna(Column(g, pre \o "totalTradedVolume"))
        doi    == diff_fillna(Column(g, pre \o "openInterest"))
        dprice == diff_fillna(Column(g, pre \o "lastPrice"))
        div    == diff_fillna(Column(g, pre \o "impliedVolatility"))
        pct    == pct_change_fillna_100(Column(g, pre \o "lastPrice"))
    IN [k \in 1..Len(g) |->
           [g[k] EXCEPT ![pre \o "volChange"]   = dvol[k],
                        ![pre \o "oiChange"]    = doi[k],
                        ![pre \o "priceChange"] = dprice[k],
                        ![pre \o "ivChange"]    = div[k],
                        ![pre \o "pctReturn"]   = pct[k]]]

RowsAt(rows, c, v) ==
    LET Hit(r) == r[c] = Num(v) IN SelectSeq(rows, Hit)

KeysOf(rows, c) ==
    {Val(rows[k][c]) : k \in {j \in 1..Len(rows) : ~IsNull(rows[j][c])}}

RECURSIVE Ascending(_)
Ascending(S) ==
    IF S = {} THEN <<>> ELSE <<SetMin(S)>> \o Ascending(S \ {SetMin(S)})

RECURSIVE ConcatGroups(_, _)
ConcatGroups(keys, result) ==
    IF keys = <<>> THEN <<>>
    ELSE result[Head(keys)] \o ConcatGroups(Tail(keys), result)

(***************************************************************************)
(* df.groupby(strike, group_keys=False).apply(add_deltas) (line 66).       *)
(* groupby leaves out the rows whose key is missing (dropna=True), so the  *)
(* frame apply returns has lost them.  With no group left, apply returns   *)
(* an empty frame with the columns it was given.  When every group comes   *)
(* back with its index unchanged, the rows are put back in the frame's     *)
(* order; otherwise the groups follow one another in key order.            *)
(***************************************************************************)
groupby_apply(frame, pre) ==
    LET strike == pre \o "strikePrice"
        keys   == KeysOf(frame.rows, strike)
        result == [v \in keys |-> add_deltas(RowsAt(frame.rows, strike, v), pre)]
        same   == \A v \in keys :
                     sort_values(RowsAt(frame.rows, strike, v))
                         = RowsAt(frame.rows, strike, v)
        kept   == {j \in 1..Len(frame.rows) : ~IsNull(frame.rows[j][strike])}
        rank(j) == Cardinality({m \in 1..j : frame.rows[m][strike] = frame.rows[j][strike]})
        order  == Ascending(kept)
    IN IF keys = {} THEN [columns |-> frame.columns, rows |-> <<>>]
       ELSE [columns |-> frame.columns \cup SideCols(pre, DeltaFields),
             rows |-> IF same
                      THEN [k \in 1..Len(order) |->
                               result[Val(frame.rows[order[k]][strike])][rank(order[k])]]
                      ELSE ConcatGroups(Ascending(keys), result)]

(***************************************************************************)
(* One turn of the loop of lines 45-66, for the side `pre`.                *)
(***************************************************************************)
DeltaPass(frame, pre) ==
    IF ~(SideCols(pre, BaseFields) \subseteq frame.columns) THEN frame
    ELSE groupby_apply(frame, pre)

Deltas ==
    /\ pc \in {"deltas", "deltas_PE"}
    /\ df' = DeltaPass(df, IF pc = "deltas" THEN Sides[1] ELSE Sides[2])
    /\ pc' = (IF pc = "deltas" THEN "deltas_PE" ELSE "indicators")
    /\ UNCHANGED <<files, i, full, short, frames, err, saved, rendered, out>>

(***************************************************************************)
(* Lines 69-74.  x / (y + 1e-9) in float64 is the cell <<x, y, kept>>:     *)
(* kept says whether y + 1e-9 is a float above y.  For an integer y >= 0   *)
(* that is so below 2^24, where half the spacing of the floats is under    *)
(* 1e-9; from 2^24 on the sum rounds back to y.                            *)
(***************************************************************************)
EpsAbsorbedFrom == 16777216

EpsKept(y) == y < EpsAbsorbedFrom

\* The division with the put side left out of the denominator.
OI_imbalance_CallOnlyDenominator(ce, pe) ==
    IF IsNull(ce) \/ IsNull(pe) THEN NoValue
    ELSE <<Val(ce) - Val(pe), Val(ce), EpsKept(Val(ce))>>

OI_imbalance(ce, pe) ==
    IF IsNull(ce) \/ IsNull(pe) THEN NoValue
    ELSE <<Val(ce) - Val(pe), Val(ce) + Val(pe), EpsKept(Val(ce) + Val(pe))>>

PCR(cevol, pevol) ==
    IF IsNull(cevol) \/ IsNull(pevol) THEN NoValue
    ELSE <<Val(pevol), Val(cevol), EpsKept(Val(cevol))>>

Indicators ==
    /\ pc = "indicators"
    /\ LET withOI  == {"CE_openInterest", "PE_openInterest"} \subseteq df.columns
           withPCR == {"CE_totalTradedVolume", "PE_totalTradedVolume"} \subseteq df.columns
           upd(r) ==
               [r EXCEPT
                  !["OI_imbalance"] =
                      IF withOI THEN OI_imbalance(r["CE_openInterest"], r["PE_openInterest"])
                      ELSE @,
                  !["PCR"] =
                      IF withPCR THEN PCR(r["CE_totalTradedVolume"], r["PE_totalTradedVolume"])
                      ELSE @]
       IN df' = [columns |-> df.columns
                              \cup (IF withOI THEN {"OI_imbalance"} ELSE {})
                              \cup (IF withPCR THEN {"PCR"} ELSE {}),
                 rows |-> [k \in 1..Len(df.rows) |-> upd(df.rows[k])]]
    /\ pc' = "panel"
    /\ UNCHANGED <<files, i, full, short, frames, err, saved, rendered, out>>

(***************************************************************************)
(* plot_metric (lines 79-107).  One side's turn of the loop: nothing when  *)
(* the metric column is absent or no row has the strike, a chart           *)
(* otherwise; df[s_col] raises KeyError when the side has no strikePrice   *)
(* column.  A chart is the side, the metric and the plotted cells.         *)
(***************************************************************************)
Prefixes(opt_type) == IF opt_type = "Both" THEN Sides ELSE <<opt_type \o "_">>

PlotSide(metric, frame, strike, pre) ==
    LET col   == pre \o metric
        s_col == pre \o "strikePrice"
    IN IF col \notin frame.columns THEN [raised |-> FALSE, charts |-> <<>>]
       ELSE IF s_col \notin frame.columns THEN [raised |-> TRUE, charts |-> <<>>]
       ELSE LET tmp == sort_values(RowsAt(frame.rows, s_col, strike))
            IN [raised |-> FALSE,
                charts |-> IF tmp = <<>> THEN <<>>
                           ELSE <<[side |-> pre, metric |-> metric, y |-> Column(tmp, col)]>>]

RECURSIVE PlotSides(_, _, _, _)
PlotSides(metric, frame, strike, prefixes) ==
    IF prefixes = <<>> THEN [raised |-> FALSE, charts |-> <<>>]
    ELSE LET first == PlotSide(metric, frame, strike, Head(prefixes)) IN
         IF first.raised THEN first
         ELSE LET rest == PlotSides(metric, frame, strike, Tail(prefixes))
              IN [raised |-> rest.raised, charts |-> first.charts \o rest.charts]

plot_metric(metric, frame, strike, opt_type) ==
    PlotSides(metric, frame, strike, Prefixes(opt_type))

RECURSIVE PlotAll(_, _, _, _)
PlotAll(metrics, frame, strike, opt_type) ==
    IF metrics = <<>> THEN [raised |-> FALSE, charts |-> <<>>]
    ELSE LET first == plot_metric(Head(metrics), frame, strike, opt_type) IN
         IF first.raised THEN first
         ELSE LET rest == PlotAll(Tail(metrics), frame, strike, opt_type)
              IN [raised |-> rest.raised, charts |-> first.charts \o rest.charts]

\* Lines 114-118 (and 154-156, 213-215): the strikes offered for selection.
StrikeList(frame) ==
    IF "CE_strikePrice" \in frame.columns THEN KeysOf(frame.rows, "CE_strikePrice")
    ELSE IF "PE_strikePrice" \in frame.columns THEN KeysOf(frame.rows, "PE_strikePrice")
    ELSE {}

OptTypes == {"CE", "PE", "Both"}

\* st.session_state[name + "_plot"]: nothing, or the selection of the last
\* press of Plot, which may date from an earlier batch.
Selections ==
    {NoValue} \cup {<<k, o>> : k \in Strikes \cup {AbsentStrike}, o \in OptTypes}

(***************************************************************************)
(* panel (lines 112-142), called for Panel A and then for Panel B.         *)
(***************************************************************************)
Panel ==
    /\ pc \in {"panel", "panel_B"}
    /\ \E sel \in Selections :
          LET drawn == IF StrikeList(df) = {} \/ sel = NoValue
                       THEN [raised |-> FALSE, charts |-> <<>>]
                       ELSE PlotAll(<<"lastPrice", "volChange", "oiChange">>,
                                    df, sel[1], sel[2])
          IN /\ saved' = sel
             /\ rendered' = drawn.charts
             /\ err' = (IF drawn.raised THEN "KeyError" ELSE "none")
             /\ pc' = (IF drawn.raised THEN "aborted"
                       ELSE IF pc = "panel" THEN "panel_B" ELSE "panel_C")
    /\ UNCHANGED <<files, i, full, short, frames, df, out>>

(***************************************************************************)
(* Panel C (lines 151-204) changes nothing the later code reads: it writes *)
(* text.  Its st.slider (lines 161-167) is given min_value = max_value     *)
(* when the frame holds a single timestamp, and NaT when it holds none;    *)
(* whether Streamlit raises then depends on its version, so both outcomes  *)
(* are taken.                                                              *)
(***************************************************************************)
TimeRange(frame) ==
    {frame.rows[k]["timestamp"] : k \in 1..Len(frame.rows)} \ {NaT}

PanelC ==
    /\ pc = "panel_C"
    /\ \E raised \in (IF StrikeList(df) # {} /\ Cardinality(TimeRange(df)) < 2
                      THEN BOOLEAN ELSE {FALSE}) :
          /\ err' = (IF raised THEN "StreamlitAPIException" ELSE "none")
          /\ pc' = (IF raised THEN "aborted" ELSE "panel_D")
    /\ UNCHANGED <<files, i, full, short, frames, df, saved, rendered, out>>

(***************************************************************************)
(* Fixed-point arithmetic for Panel D.  The script computes in float64;    *)
(* the model carries a correlation and a mean in thousandths and a         *)
(* strength in ten-thousandths, rounded down, and NaN as "no value".       *)
(***************************************************************************)
RECURSIVE GCD(_, _)
GCD(a, b) == IF b = 0 THEN a ELSE GCD(b, a % b)

RECURSIVE Pow10(_)
Pow10(p) == IF p = 0 THEN 1 ELSE 10 * Pow10(p - 1)

\* floor(n * 10^p / d) for 0 <= n <= d, digit by digit.
RECURSIVE FixedPoint(_, _, _)
FixedPoint(n, d, p) ==
    IF p = 0 THEN n \div d
    ELSE (n \div d) * Pow10(p) + FixedPoint((n % d) * 10, d, p - 1)

\* The largest k in lo..hi with k * k <= q, by bisection.
RECURSIVE IsqrtIn(_, _, _)
IsqrtIn(q, lo, hi) ==
    IF lo = hi THEN lo
    ELSE LET mid == (lo + hi + 1) \div 2 IN
         IF mid * mid <= q THEN IsqrtIn(q, mid, hi) ELSE IsqrtIn(q, lo, mid - 1)

Isqrt(q) == IsqrtIn(q, 0, 1000)

RECURSIVE SeqSum(_)
SeqSum(xs) == IF xs = <<>> THEN 0 ELSE Head(xs) + SeqSum(Tail(xs))

RECURSIVE SeqGCD(_)
SeqGCD(xs) == IF xs = <<>> THEN 0 ELSE GCD(Abs(Head(xs)), SeqGCD(Tail(xs)))

\* Pearson's r does not change when a series is divided by a positive
\* number: each series is reduced by its gcd before the sums are taken.
Reduced(xs) ==
    LET g == SeqGCD(xs) IN
    IF g = 0 THEN xs ELSE [k \in 1..Len(xs) |-> xs[k] \div g]

(***************************************************************************)
(* Series.corr (lines 224-225) of two columns without missing cells:       *)
(* np.corrcoef, which is NaN when either series has no variance (a single  *)
(* row included).                                                          *)
(***************************************************************************)
corr(xcells, ycells) ==
    LET xs == Reduced([k \in 1..Len(xcells) |-> Val(xcells[k])])
        ys == Reduced([k \in 1..Len(ycells) |-> Val(ycells[k])])
        n  == Len(xs)
        c  == n * SeqSum([k \in 1..n |-> xs[k] * ys[k]]) - SeqSum(xs) * SeqSum(ys)
        vx == n * SeqSum([k \in 1..n |-> xs[k] * xs[k]]) - SeqSum(xs) * SeqSum(xs)
        vy == n * SeqSum([k \in 1..n |-> ys[k] * ys[k]]) - SeqSum(ys) * SeqSum(ys)
    IN IF vx = 0 \/ vy = 0 THEN NoValue
       ELSE Num(Sign(c) * Isqrt(FixedPoint(c * c, vx * vy, 6)))

\* One OI_imbalance cell in thousandths (the 1e-9 is below that scale).
Thousandths(cell) ==
    IF cell[1] = 0 THEN 0
    ELSE Sign(cell[1]) * FixedPoint(Abs(cell[1]), cell[2], 3)

\* Series.mean() (line 226): the mean of the cells that hold a value, NaN
\* when none does.
mean(cells) ==
    LET held == SelectSeq(cells, LAMBDA c : ~IsNull(c)) IN
    IF held = <<>> THEN NoValue
    ELSE Num(SeqSum([k \in 1..Len(held) |-> Thousandths(held[k])]) \div Len(held))

\* Python's `r or 0` (line 228): 0 only when r is falsy, and NaN is not.
OrZero(r) == IF r = Num(0) THEN Num(0) ELSE r

\* Line 227-229; NaN in any term makes the sum NaN.
Strength(r_price_oi, r_price_vol, oi_imb) ==
    LET a == OrZero(r_price_oi)
        b == OrZero(r_price_vol)
    IN IF IsNull(a) \/ IsNull(b) \/ IsNull(oi_imb) THEN NoValue
       ELSE Num(4 * Val(a) + 3 * Val(b) + 3 * Val(oi_imb))

(***************************************************************************)
(* The dict Panel D builds for one strike (lines 217-229): the keys it     *)
(* holds and their cells.                                                  *)
(***************************************************************************)
SideStrength(frame, strike, side) ==
    LET d == RowsAt(frame.rows, side \o "strikePrice", strike) IN
    IF (side \o "priceChange") \notin frame.columns \/ d = <<>>
    THEN [present |-> FALSE, value |-> NoValue]
    ELSE [present |-> TRUE,
          value |-> Strength(
              corr(Column(d, side \o "priceChange"), Column(d, side \o "oiChange")),
              corr(Column(d, side \o "priceChange"), Column(d, side \o "volChange")),
              IF "OI_imbalance" \in frame.columns
              THEN mean(Column(d, "OI_imbalance")) ELSE Num(0))]

StrengthRow(frame, strike) ==
    LET ce == SideStrength(frame, strike, "CE_")
        pe == SideStrength(frame, strike, "PE_")
    IN [Strike |-> strike,
        keys |-> (IF ce.present THEN {"CE_Strength"} ELSE {})
                 \cup (IF pe.present THEN {"PE_Strength"} ELSE {}),
        CE_Strength |-> ce.value,
        PE_Strength |-> pe.value]

\* r.get(key, 0) on a row of pd.DataFrame(results) (line 235): the default
\* only when no row at all has the key; NaN where this row lacks it.
Get(r, key, columns) ==
    IF key \notin columns THEN Num(0)
    ELSE IF key \in r.keys THEN r[key] ELSE NoValue

Greater(a, b) == ~IsNull(a) /\ ~IsNull(b) /\ Val(a) > Val(b)

Bias(r, columns) ==
    IF Greater(Get(r, "CE_Strength", columns), Get(r, "PE_Strength", columns))
    THEN "Bull" ELSE "Bear"

(***************************************************************************)
(* Panel D (lines 212-243).  px.bar raises ValueError when the table lacks *)
(* one of the two strength columns; the table is on screen by then.        *)
(***************************************************************************)
PanelD ==
    /\ pc = "panel_D"
    /\ LET strikes == Ascending(StrikeList(df))
           results == [k \in 1..Len(strikes) |-> StrengthRow(df, strikes[k])]
           columns == UNION {results[k].keys : k \in 1..Len(results)}
           biased(r) == [Strike |-> r.Strike, keys |-> r.keys,
                         CE_Strength |-> r.CE_Strength, PE_Strength |-> r.PE_Strength,
                         Bias |-> Bias(r, columns)]
           missing == results # <<>> /\ columns # {"CE_Strength", "PE_Strength"}
       IN /\ out' = [k \in 1..Len(results) |-> biased(results[k])]
          /\ rendered' = IF results = <<>> \/ missing THEN <<>>
                         ELSE <<[side |-> "both", metric |-> "Strength",
                                 y |-> <<>>]>>
          /\ err' = (IF missing THEN "ValueError" ELSE "none")
          /\ pc' = (IF missing THEN "aborted" ELSE "done")
    /\ UNCHANGED <<files, i, full, short, frames, df, saved>>

Next == ReadFile \/ Concat \/ Deltas \/ Indicators \/ Panel \/ PanelC \/ PanelD

Spec == Init /\ [][Next]_vars

(***************************************************************************)
(* The same script on batches of the open-interest family alone.           *)
(***************************************************************************)
InitOI ==
    /\ files \in UNION {BatchesOf("oi", n) : n \in 1..MaxFiles}
    /\ pc = "load"
    /\ i = 1
    /\ full = NoValue
    /\ short = NoValue
    /\ frames = <<>>
    /\ df = EmptyFrame
    /\ err = "none"
    /\ saved = NoValue
    /\ rendered = <<>>
    /\ out = <<>>

SpecOI == InitOI /\ [][Next]_vars

(***************************************************************************)
(* The same script on a single readable file whose name is put together    *)
(* from a prefix, "_", a date run, a separator, a time run and ".csv".     *)
(***************************************************************************)
DateRuns ==
    {DateRunOk, DateRunNoSuchDay,
     <<"0", "1", "0", "1", "2", "0", "2">>,
     <<"0", "0", "1", "0", "1", "2", "0", "2", "4">>,
     <<"0", "1", "a", "1", "2", "0", "2", "4">>}

TimeRuns ==
    {<<"0", "9", "1", "5", "0", "0">>,
     <<"2", "3", "5", "9", "5", "9">>,
     <<"0", "9", "1", "5", "0">>,
     <<"0", "9", "1", "5", "0", "0", "0">>,
     <<"0", "9", "x", "5", "0", "0">>}

Separators == {<<"_">>, <<"-">>, <<>>}

NamePrefixes == {<<>>, <<"o", "c">>, <<"1", "2">>}

ParseNames ==
    {pre \o <<"_">> \o d \o sep \o t \o Csv :
        pre \in NamePrefixes, d \in DateRuns, sep \in Separators, t \in TimeRuns}

InitParse ==
    /\ files \in {<<File(n, "ok", SchemaBoth, <<FrameRow(SchemaBoth, DefaultRow)>>)>> :
                    n \in ParseNames}
    /\ pc = "load"
    /\ i = 1
    /\ full = NoValue
    /\ short = NoValue
    /\ frames = <<>>
    /\ df = EmptyFrame
    /\ err = "none"
    /\ saved = NoValue
    /\ rendered = <<>>
    /\ out = <<>>

SpecParse == InitParse /\ [][Next]_vars

(***************************************************************************)
(*                              The claims                                 *)
(***************************************************************************)
LoadFailed == err \in {"EmptyDataError", "ParserError"}

\* The script is past line 40 / past line 66 / past line 74.
Loaded == pc # "load" /\ ~LoadFailed

DeltasDone == Loaded /\ pc \notin {"deltas", "deltas_PE"}

IndicatorsDone == DeltasDone /\ pc # "indicators"

\* Panel D's table has been built (line 237).
PanelDRan == pc = "done" \/ err = "ValueError"

\* The call of panel that set `rendered` is the last thing that ran.
JustPanelled == pc \in {"panel_B", "panel_C"} \/ err = "KeyError"

DeltaSides == {pre \in {"CE_", "PE_"} : SideCols(pre, DeltaFields) \subseteq df.columns}

\* A side's strike group as the frame holds it, in timestamp order.
StrikeGroup(pre, v) == sort_values(RowsAt(df.rows, pre \o "strikePrice", v))

StrikeGroups(pre) ==
    {StrikeGroup(pre, v) : v \in KeysOf(df.rows, pre \o "strikePrice")}

AllDeltasZero(r, pre) ==
    /\ r[pre \o "volChange"] = Num(0)
    /\ r[pre \o "oiChange"] = Num(0)
    /\ r[pre \o "priceChange"] = Num(0)
    /\ r[pre \o "ivChange"] = Num(0)
    /\ IsZero(r[pre \o "pctReturn"])

\* C1: once the delta loop has run, the first row (in timestamp order) of
\* every strike group of every side that has delta columns carries
\* volChange, oiChange, priceChange, ivChange and pctReturn all equal to 0.
C1_FirstRowAllZero ==
    DeltasDone =>
        \A pre \in DeltaSides : \A g \in StrikeGroups(pre) : AllDeltasZero(g[1], pre)

\* C2: once the delta loop has run, no row carries an infinite pctReturn,
\* and a row whose predecessor in its strike group has a last price of 0
\* or none has pctReturn 0.  (NaN cannot survive fillna and is not a value
\* of the model.)
C2_PctReturnGuarded ==
    DeltasDone =>
        \A pre \in DeltaSides : \A g \in StrikeGroups(pre) : \A k \in 1..Len(g) :
            /\ ~IsInfinite(g[k][pre \o "pctReturn"])
            /\ (k > 1 /\ g[k - 1][pre \o "lastPrice"] \in {NoValue, Num(0)})
                   => IsZero(g[k][pre \o "pctReturn"])

\* C3: once the delta loop has run, in every strike group of every side
\* that has delta columns the volChange cells add up to the last row's
\* totalTradedVolume minus the first row's (where both rows have one).
C3_VolChangeTelescopes ==
    DeltasDone =>
        \A pre \in DeltaSides : \A g \in StrikeGroups(pre) :
            LET first == g[1][pre \o "totalTradedVolume"]
                last  == g[Len(g)][pre \o "totalTradedVolume"]
                total == SeqSum([k \in 1..Len(g) |-> Val(g[k][pre \o "volChange"])])
            IN (~IsNull(first) /\ ~IsNull(last)) => total = Val(last) - Val(first)

\* C4: from the end of the load on, no row of the working dataset has a
\* null timestamp.
C4_TimestampNeverNull ==
    Loaded => \A k \in 1..Len(df.rows) : ~IsNull(df.rows[k]["timestamp"])

\* A file the loader can use: readable, not empty, and named so that
\* parse_time yields a timestamp.
ValidFile(f) == f.kind = "ok" /\ f.rows # <<>> /\ ~IsNull(parse_time(f.name).full)

ValidRows == SeqSum([k \in 1..Len(files) |->
                       IF ValidFile(files[k]) THEN Len(files[k].rows) ELSE 0])

\* C5: a batch with at least one valid file never ends the run while
\* loading, and the dataset the load produces holds exactly the rows of the
\* valid files.
C5_LoadNeverAborts ==
    (\E k \in 1..Len(files) : ValidFile(files[k])) =>
        /\ ~LoadFailed
        /\ pc = "deltas" => Len(df.rows) = ValidRows

\* The score the strength formula gives with every undefined correlation
\* taken as 0.
ZeroIfNaN(r) == IF IsNull(r) THEN Num(0) ELSE r

ExpectedStrength(strike, side) ==
    LET d == RowsAt(df.rows, side \o "strikePrice", strike) IN
    Strength(
        ZeroIfNaN(corr(Column(d, side \o "priceChange"), Column(d, side \o "oiChange"))),
        ZeroIfNaN(corr(Column(d, side \o "priceChange"), Column(d, side \o "volChange"))),
        IF "OI_imbalance" \in df.columns THEN mean(Column(d, "OI_imbalance")) ELSE Num(0))

\* C6: every strength Panel D's table holds is a number, the one the
\* formula gives with each undefined correlation counted as 0.
C6_StrengthAlwaysDefined ==
    PanelDRan =>
        \A k \in 1..Len(out) :
            /\ "CE_Strength" \in out[k].keys =>
                  /\ ~IsNull(out[k].CE_Strength)
                  /\ out[k].CE_Strength = ExpectedStrength(out[k].Strike, "CE_")
            /\ "PE_Strength" \in out[k].keys =>
                  /\ ~IsNull(out[k].PE_Strength)
                  /\ out[k].PE_Strength = ExpectedStrength(out[k].Strike, "PE_")

\* C7: a row of Panel D's table that has a strength for one side only has
\* the Bias "not applicable"; a row with both has "Bull" when the CE
\* strength is above the PE strength and "Bear" otherwise.
C7_BiasNeedsBothSides ==
    PanelDRan =>
        \A k \in 1..Len(out) :
            /\ Cardinality(out[k].keys) = 1 => out[k].Bias = "not applicable"
            /\ Cardinality(out[k].keys) = 2 =>
                  out[k].Bias = (IF Greater(out[k].CE_Strength, out[k].PE_Strength)
                                 THEN "Bull" ELSE "Bear")

\* A name is well-formed when "_", exactly eight digits, "_" and exactly
\* six digits stand in it: the digit run after the second "_" ends there.
WellFormed(name) ==
    \E p \in 1..Len(name) :
        /\ MatchAt(name, p)
        /\ (p + 16 <= Len(name) => name[p + 16] \notin Digits)

\* C8: once a file has been read, `full` and `short` are both null when
\* its name is malformed, and for a well-formed name they are the 19
\* characters "DD-MM-YYYY HH:MM:SS" and the 4 characters "HHMM".
C8_MalformedNameGivesNull ==
    i > 1 =>
        LET name == files[i - 1].name IN
        IF WellFormed(name)
        THEN Len(full) = 19 /\ Len(short) = 4
        ELSE full = NoValue /\ short = NoValue

\* The rows whose two open interests are there (they are never negative).
OIRows ==
    {k \in 1..Len(df.rows) :
        /\ ~IsNull(df.rows[k]["CE_openInterest"])
        /\ ~IsNull(df.rows[k]["PE_openInterest"])}

\* x / (y + 1e-9) for |x| <= y: the quotient of two floats is below 1 in
\* size unless they are equal in size, and is 0 only for x = 0.
StrictlyInside(cell) == Abs(cell[1]) < cell[2] \/ (cell[3] /\ Abs(cell[1]) <= cell[2])

WithinClosed(cell) == Abs(cell[1]) <= cell[2]

ExactlyZero(cell) == cell[1] = 0 /\ (cell[2] # 0 \/ cell[3])

\* C9 as written: every row with both open interests has an OI_imbalance
\* strictly between -1 and 1, and exactly 0 when the two are equal.
C9_ImbalanceStrictlyInside ==
    IndicatorsDone =>
        \A k \in OIRows :
            LET r == df.rows[k] IN
            /\ ~IsNull(r["OI_imbalance"])
            /\ StrictlyInside(r["OI_imbalance"])
            /\ r["CE_openInterest"] = r["PE_openInterest"] => ExactlyZero(r["OI_imbalance"])

\* C9 as amended: every row with both open interests has an OI_imbalance
\* in [-1, 1]; it is strictly between -1 and 1 when the two add up to less
\* than 2^24, and exactly 0 when the two are equal.
C9_ImbalanceBounded ==
    IndicatorsDone =>
        \A k \in OIRows :
            LET r == df.rows[k] IN
            /\ ~IsNull(r["OI_imbalance"])
            /\ WithinClosed(r["OI_imbalance"])
            /\ Val(r["CE_openInterest"]) + Val(r["PE_openInterest"]) < EpsAbsorbedFrom
                   => StrictlyInside(r["OI_imbalance"])
            /\ r["CE_openInterest"] = r["PE_openInterest"] => ExactlyZero(r["OI_imbalance"])

\* C9's case: the indicators are computed, one row has equal open interest
\* above 0 and another has unequal open interest adding up to less than 2^24.
C9_Witness ==
    /\ IndicatorsDone
    /\ \E k \in OIRows :
          /\ df.rows[k]["CE_openInterest"] = df.rows[k]["PE_openInterest"]
          /\ Val(df.rows[k]["CE_openInterest"]) > 0
    /\ \E k \in OIRows :
          /\ df.rows[k]["CE_openInterest"] # df.rows[k]["PE_openInterest"]
          /\ Val(df.rows[k]["CE_openInterest"]) + Val(df.rows[k]["PE_openInterest"])
                 < EpsAbsorbedFrom

\* No row of a side queried by the saved selection has the selected strike.
NoRowMatches ==
    \A n \in 1..Len(Prefixes(saved[2])) :
        RowsAt(df.rows, Prefixes(saved[2])[n] \o "strikePrice", saved[1]) = <<>>

\* C10: a panel call whose selection matches no row of the queried side
\* draws nothing and raises nothing.
C10_NoMatchDrawsNothing ==
    (JustPanelled /\ saved # NoValue /\ NoRowMatches) =>
        err = "none" /\ rendered = <<>>

====
